---- MODULE Spec2Model ----
(***************************************************************************)
(* A model of the two route linters of this repository:                    *)
(*   "simple"   : RouteAnalyzer (src/unnamed/part_000, route-analyzer.js)  *)
(*   "extended" : RouteDebugger (src/bin/cli.js, routeDebugger.js)         *)
(* A run is the CLI main block (argument parsing, help, path check, exit   *)
(* status) or a direct use of the exported class, followed by the          *)
(* depth-first walk of a directory tree, the per-file rule evaluation and  *)
(* one of the reporters.                                                   *)
(*                                                                         *)
(* File names are atoms with a spelling (Spell), so that the filename      *)
(* regular expressions are computed on characters.  A file's text is the   *)
(* sequence of the fragments the rules look for, in textual order; the     *)
(* fragments are separated by text that matches nothing.                   *)
(***************************************************************************)
EXTENDS Integers, Sequences, FiniteSets, TLC

VARIABLES
    variant,          \* "simple" | "extended": which program runs
    entry,            \* "cli": the main block runs; "api": new X(basePath, options).run()
    args,             \* process.argv.slice(2)
    tree,             \* the directory found at every existing path
    pc,               \* position of the run
    options,          \* the options object
    targetPath,       \* targetPath of the main block / basePath of the analyzer
    constructed,      \* an analyzer object has been constructed
    issues,           \* this.issues
    recommendations,  \* this.recommendations
    fileStats,        \* this.fileStats
    routeConfigs,     \* this.routeConfigs (extended)
    dependencies,     \* this.dependencies (extended): name -> detected
    stack,            \* the active findRouteFiles calls, innermost last
    visited,          \* history: the paths analyzeRouteFile was called with
    analyzedLog,      \* history: the relative paths analyzed++ ran for
    fileIssuesLog,    \* history: the fileIssues list of every analyzeRouteFile call
    runs,             \* the number of run() calls made on the analyzer
    stdout,           \* what console.log wrote
    stderr,           \* what console.error wrote
    reportFile,       \* the HTML report written to disk ("" when none)
    exitCode,         \* the process exit status (-1 while running, or no process)
    monitor,          \* the debugUtilities object of the opened HTML report
    diagnoses         \* history: the diagnoseUnmountIssues calls made and their results

vars == <<variant, entry, args, tree, pc, options, targetPath, constructed, issues,
          recommendations, fileStats, routeConfigs, dependencies, stack, visited,
          analyzedLog, fileIssuesLog, runs, stdout, stderr, reportFile, exitCode,
          monitor, diagnoses>>

(***************************************************************************)
(* Bounds of the model.                                                    *)
(***************************************************************************)
MaxArgs == 2        \* longest command line
MaxEntries == 2     \* longest listing of the target directory
MaxFragments == 3   \* longest file text, in fragments
MaxRuns == 2        \* most run() calls on one analyzer
MaxFiles == 12      \* most route files of a project
MaxNavigations == 3 \* most navigations made on the opened report
MaxInstalls == 2    \* most startMonitoring calls that hook the history
MaxCalls == 2       \* most diagnoseUnmountIssues calls

(***************************************************************************)
(* Strings.                                                                *)
(***************************************************************************)
Spell ==
    [x \in {"routes.tsx", "AppRoutes.ts", "index.tsx", "routes.json", "ROUTER.JS",
            "src", "lib", "node_modules", "build", "app"} |->
        CASE x = "routes.tsx"   -> <<"r","o","u","t","e","s",".","t","s","x">>
          [] x = "AppRoutes.ts" -> <<"A","p","p","R","o","u","t","e","s",".","t","s">>
          [] x = "index.tsx"    -> <<"i","n","d","e","x",".","t","s","x">>
          [] x = "routes.json"  -> <<"r","o","u","t","e","s",".","j","s","o","n">>
          [] x = "ROUTER.JS"    -> <<"R","O","U","T","E","R",".","J","S">>
          [] x = "src"          -> <<"s","r","c">>
          [] x = "lib"          -> <<"l","i","b">>
          [] x = "node_modules" -> <<"n","o","d","e","_","m","o","d","u","l","e","s">>
          [] x = "build"        -> <<"b","u","i","l","d">>
          [] x = "app"          -> <<"a","p","p">>]

UpperCase == <<"A","B","C","D","E","F","G","H","I","J","K","L","M",
               "N","O","P","Q","R","S","T","U","V","W","X","Y","Z">>
LowerCase == <<"a","b","c","d","e","f","g","h","i","j","k","l","m",
               "n","o","p","q","r","s","t","u","v","w","x","y","z">>

\* The /i flag: letters compare by their lower-case form.
ToLower(s) ==
    [i \in 1..Len(s) |->
        IF \E k \in 1..Len(UpperCase) : UpperCase[k] = s[i]
        THEN LowerCase[CHOOSE k \in 1..Len(UpperCase) : UpperCase[k] = s[i]]
        ELSE s[i]]

\* An unanchored match of the literal p in s.
Contains(s, p) ==
    \E i \in 1..(Len(s) - Len(p) + 1) : SubSeq(s, i, i + Len(p) - 1) = p

\* A match of the literal p anchored at the end of s ($).
EndsWith(s, p) ==
    /\ Len(p) <= Len(s)
    /\ SubSeq(s, Len(s) - Len(p) + 1, Len(s)) = p

(***************************************************************************)
(* The file walker's predicates.                                           *)
(***************************************************************************)
skipDirs == {"node_modules", ".git", "dist", "build", "coverage", ".next"}

\* A slip: the list is tested against something that is never a bare name.
shouldSkipDirectoryNever(dirName) == FALSE

shouldSkipDirectory(dirName) == dirName \in skipDirs

\* A slip: || where && is meant, so that either test lets a name through.
isRelevantFileEither(fileName) ==
    LET s == Spell[fileName]
    IN  \/ Contains(ToLower(s), <<"r","o","u","t","e">>)
        \/ EndsWith(s, <<"R","o","u","t","e","s",".","t","s">>)
        \/ EndsWith(s, <<"R","o","u","t","e","s",".","t","s","x">>)
        \/ EndsWith(s, <<".","t","s">>)
        \/ EndsWith(s, <<".","t","s","x">>)
        \/ EndsWith(s, <<".","j","s">>)
        \/ EndsWith(s, <<".","j","s","x">>)

\* (/route|Route/i || /Routes\.tsx?$/) && /\.(tsx?|jsx?)$/
isRelevantFile(fileName) ==
    LET s == Spell[fileName]
    IN  /\ \/ Contains(ToLower(s), <<"r","o","u","t","e">>)
           \/ EndsWith(s, <<"R","o","u","t","e","s",".","t","s">>)
           \/ EndsWith(s, <<"R","o","u","t","e","s",".","t","s","x">>)
        /\ \/ EndsWith(s, <<".","t","s">>)
           \/ EndsWith(s, <<".","t","s","x">>)
           \/ EndsWith(s, <<".","j","s">>)
           \/ EndsWith(s, <<".","j","s","x">>)

(***************************************************************************)
(* File text.  A text is a sequence of fragments; Count and FirstIndex are *)
(* String.match(/../g).length and String.search over the fragments.        *)
(***************************************************************************)
RoutesMapCall == "routes.map(({ path, Component })"

Count(content, frags) == Cardinality({i \in 1..Len(content) : content[i] \in frags})

Has(content, frags) == \E i \in 1..Len(content) : content[i] \in frags

\* String.search: the index of the first match, -1 when there is none.
FirstIndex(content, frags) ==
    IF Has(content, frags)
    THEN CHOOSE i \in 1..Len(content) :
            /\ content[i] \in frags
            /\ \A j \in 1..(i - 1) : content[j] \notin frags
    ELSE -1

\* A regular expression literal inside a method is a new object at every call,
\* so the lastIndex a /g expression starts from is 0.  After n calls that each
\* ran test() once on the same text, an object shared by the calls would be at
\* LastIndexAfter(text, frags, n, 0): test() moves lastIndex to the match it
\* found and back to 0 when it finds none.
RECURSIVE LastIndexAfter(_, _, _, _)
LastIndexAfter(content, frags, n, lastIndex) ==
    IF n = 0 THEN lastIndex
    ELSE LET later == {i \in (lastIndex + 1)..Len(content) : content[i] \in frags}
         IN  LastIndexAfter(content, frags, n - 1,
                 IF later = {} THEN 0
                 ELSE CHOOSE i \in later : \A j \in later : i <= j)

\* A slip: the expression is hoisted out of the method and shared by its calls.
RegExpShared(content, frags) == LastIndexAfter(content, frags, Len(visited), 0)

\* The lastIndex of a /../g literal evaluated in the method that uses it.
RegExpLiteral(content, frags) == 0

\* RegExp.prototype.test of a /g expression: a match at or after lastIndex.
RegExpTest(content, frags, lastIndex) ==
    \E i \in (lastIndex + 1)..Len(content) : content[i] \in frags

routesMapPattern == {RoutesMapCall}
queryClientPattern == {"new QueryClient("}
contextPattern == {"createContext", "useContext", ".Provider"}
routesPattern == {"<Routes>"}
iterationPattern == {".map(", ".filter(", ".reduce(", ".forEach(", RoutesMapCall}

\* The issue object literal; the extended variant adds the fix field.
Issue(v, base, fix) == IF v = "extended" THEN base @@ [fix |-> fix] ELSE base

\* A file-scoped recommendation of the simple variant (the extended variant has none).
FileRec(v, filePath, message) ==
    IF v = "simple" THEN <<[file |-> filePath, message |-> message]>> ELSE <<>>

None == [issues |-> <<>>, recs |-> <<>>]

(***************************************************************************)
(* The rule set.  Each rule gives the issues it pushes on fileIssues and   *)
(* the recommendations it pushes on this.recommendations.                  *)
(***************************************************************************)
\* A slip: the useMemo test stands outside the if (matches) block.
checkDynamicRouteGenerationUnguarded(v, content, filePath) ==
    [issues |-> IF Has(content, routesMapPattern)
                THEN <<Issue(v, [type |-> "dynamic-route-generation", severity |-> "high",
                                 file |-> filePath,
                                 message |-> "Dynamic route generation detected - may cause unmounts",
                                 pattern |-> content[FirstIndex(content, routesMapPattern)]],
                             "Wrap routes array in useMemo to prevent recreation")>>
                ELSE <<>>,
     recs |-> IF ~Has(content, {"useMemo"})
              THEN FileRec(v, filePath, "Wrap routes array in useMemo to prevent recreation")
              ELSE <<>>]

checkDynamicRouteGeneration(v, content, filePath) ==
    IF Has(content, routesMapPattern)
    THEN [issues |-> <<Issue(v, [type |-> "dynamic-route-generation", severity |-> "high",
                                 file |-> filePath,
                                 message |-> "Dynamic route generation detected - may cause unmounts",
                                 pattern |-> content[FirstIndex(content, routesMapPattern)]],
                             "Wrap routes array in useMemo to prevent recreation")>>,
          recs |-> IF ~Has(content, {"useMemo"})
                   THEN FileRec(v, filePath, "Wrap routes array in useMemo to prevent recreation")
                   ELSE <<>>]
    ELSE None

\* A slip: the rule takes the severity the README's overview gives it.
checkQueryClientCreationHigh(v, content, filePath) ==
    IF Has(content, queryClientPattern)
    THEN [issues |-> <<Issue(v, [type |-> "query-client-creation", severity |-> "high",
                                 file |-> filePath,
                                 message |-> "QueryClient created in route file - may cause state loss",
                                 count |-> Count(content, queryClientPattern)],
                             "Move QueryClient creation to module level or share instance")>>,
          recs |-> FileRec(v, filePath, "Move QueryClient creation to module level or share instance")]
    ELSE None

checkQueryClientCreation(v, content, filePath) ==
    IF Has(content, queryClientPattern)
    THEN [issues |-> <<Issue(v, [type |-> "query-client-creation", severity |-> "medium",
                                 file |-> filePath,
                                 message |-> "QueryClient created in route file - may cause state loss",
                                 count |-> Count(content, queryClientPattern)],
                             "Move QueryClient creation to module level or share instance")>>,
          recs |-> FileRec(v, filePath, "Move QueryClient creation to module level or share instance")]
    ELSE None

\* A slip: both kinds of token are looked for, their order is not.
checkContextPlacementAnyOrder(v, content, filePath) ==
    IF Has(content, contextPattern) /\ Has(content, routesPattern)
    THEN [issues |-> <<Issue(v, [type |-> "context-placement", severity |-> "high",
                                 file |-> filePath,
                                 message |-> "Context may be placed above Routes - could cause unmounts"],
                             "Move context provider below shell routing but above module routes")>>,
          recs |-> FileRec(v, filePath, "Move context provider below shell routing but above module routes")]
    ELSE None

checkContextPlacement(v, content, filePath) ==
    LET hasContext ==
            RegExpTest(content, contextPattern, RegExpLiteral(content, contextPattern))
        hasRoutes ==
            RegExpTest(content, routesPattern, RegExpLiteral(content, routesPattern))
        contextIndex == FirstIndex(content, contextPattern)
        routesIndex == FirstIndex(content, routesPattern)
    IN  IF /\ hasContext /\ hasRoutes
           /\ contextIndex < routesIndex /\ contextIndex # -1 /\ routesIndex # -1
        THEN [issues |-> <<Issue(v, [type |-> "context-placement", severity |-> "high",
                                     file |-> filePath,
                                     message |-> "Context may be placed above Routes - could cause unmounts"],
                                 "Move context provider below shell routing but above module routes")>>,
              recs |-> FileRec(v, filePath, "Move context provider below shell routing but above module routes")]
        ELSE None

checkBlockedNavigation(v, content, filePath) ==
    IF Has(content, {"BlockedNavigation"})
    THEN [issues |-> <<Issue(v, [type |-> "blocked-navigation", severity |-> "medium",
                                 file |-> filePath,
                                 message |-> "BlockedNavigation component found - may interfere with routing"],
                             "Review BlockedNavigation placement and when conditions")>>,
          recs |-> FileRec(v, filePath, "Review BlockedNavigation placement and when conditions")]
    ELSE None

checkActivityContext(v, content, filePath) ==
    IF Has(content, {"ActivityContext"})
    THEN [issues |-> <<Issue(v, [type |-> "activity-context", severity |-> "medium",
                                 file |-> filePath,
                                 message |-> "ActivityContext found - may track navigation changes"],
                             "Review ActivityContext usage for potential navigation interference")>>,
          recs |-> FileRec(v, filePath, "Review ActivityContext usage for potential navigation interference")]
    ELSE None

checkMemoization(v, content, filePath) ==
    LET hasExpensiveCalculations ==
            RegExpTest(content, iterationPattern, RegExpLiteral(content, iterationPattern))
        hasUseMemo == Has(content, {"useMemo"})
        hasUseCallback == Has(content, {"useCallback"})
    IN  IF hasExpensiveCalculations /\ ~hasUseMemo /\ ~hasUseCallback
        THEN [issues |-> <<Issue(v, [type |-> "missing-memoization", severity |-> "low",
                                     file |-> filePath,
                                     message |-> "Expensive calculations detected without memoization"],
                                 "Consider memoizing expensive calculations with useMemo/useCallback")>>,
              recs |-> FileRec(v, filePath, "Consider memoizing expensive calculations with useMemo/useCallback")]
        ELSE None

checkAsyncWrapper(v, content, filePath) ==
    IF Has(content, {"AsyncWrapper"}) /\ Count(content, {"AsyncWrapper"}) > 1
    THEN [issues |-> <<Issue(v, [type |-> "multiple-async-wrappers", severity |-> "medium",
                                 file |-> filePath,
                                 message |-> "Multiple AsyncWrapper instances detected",
                                 count |-> Count(content, {"AsyncWrapper"})],
                             "Consolidate AsyncWrapper usage to prevent conflicts")>>,
          recs |-> <<>>]
    ELSE None

\* A slip: the rule asks for neither hook, as checkMemoization does.
checkShellPatternsNeither(v, content, filePath) ==
    IF /\ Has(content, {"useModulePathResolver"})
       /\ (~Has(content, {"useMemo"}) /\ ~Has(content, {"useCallback"}))
    THEN [issues |-> <<Issue(v, [type |-> "unmemoized-shell-hooks", severity |-> "medium",
                                 file |-> filePath,
                                 message |-> "Shell hooks used without proper memoization"],
                             "Wrap shell hooks with useMemo/useCallback for stability")>>,
          recs |-> <<>>]
    ELSE None

checkShellPatterns(v, content, filePath) ==
    IF /\ Has(content, {"useModulePathResolver"})
       /\ (~Has(content, {"useMemo"}) \/ ~Has(content, {"useCallback"}))
    THEN [issues |-> <<Issue(v, [type |-> "unmemoized-shell-hooks", severity |-> "medium",
                                 file |-> filePath,
                                 message |-> "Shell hooks used without proper memoization"],
                             "Wrap shell hooks with useMemo/useCallback for stability")>>,
          recs |-> <<>>]
    ELSE None

performancePatterns ==
    << [pattern |-> {"console.log"},
        message |-> "Console statements found - remove for production"],
       [pattern |-> {"debugger"},
        message |-> "Debugger statements found - remove for production"],
       [pattern |-> {"JSON.parse(JSON.stringify"},
        message |-> "Deep cloning with JSON methods - consider alternatives"] >>

RECURSIVE PerformanceFrom(_, _, _, _)
PerformanceFrom(v, content, filePath, k) ==
    IF k > Len(performancePatterns) THEN <<>>
    ELSE (IF RegExpTest(content, performancePatterns[k].pattern,
                        RegExpLiteral(content, performancePatterns[k].pattern))
          THEN <<Issue(v, [type |-> "performance-issue", severity |-> "low",
                           file |-> filePath,
                           message |-> performancePatterns[k].message],
                       "Optimize performance by addressing this pattern")>>
          ELSE <<>>)
         \o PerformanceFrom(v, content, filePath, k + 1)

checkPerformancePatterns(v, content, filePath) ==
    [issues |-> PerformanceFrom(v, content, filePath, 1), recs |-> <<>>]

\* A slip: the performance patterns are looked for before the other rules run.
RuleResultsPerformanceFirst(v, content, filePath) ==
    << checkPerformancePatterns(v, content, filePath),
       checkDynamicRouteGeneration(v, content, filePath),
       checkQueryClientCreation(v, content, filePath),
       checkContextPlacement(v, content, filePath),
       checkBlockedNavigation(v, content, filePath),
       checkActivityContext(v, content, filePath),
       checkMemoization(v, content, filePath),
       checkAsyncWrapper(v, content, filePath),
       checkShellPatterns(v, content, filePath) >>

\* The nine calls of analyzeRouteFile, in their order.
RuleResults(v, content, filePath) ==
    << checkDynamicRouteGeneration(v, content, filePath),
       checkQueryClientCreation(v, content, filePath),
       checkContextPlacement(v, content, filePath),
       checkBlockedNavigation(v, content, filePath),
       checkActivityContext(v, content, filePath),
       checkMemoization(v, content, filePath),
       checkAsyncWrapper(v, content, filePath),
       checkShellPatterns(v, content, filePath),
       checkPerformancePatterns(v, content, filePath) >>

RECURSIVE Flatten(_, _)
Flatten(parts, field) ==
    IF parts = <<>> THEN <<>>
    ELSE Head(parts)[field] \o Flatten(Tail(parts), field)

FileIssues(v, content, filePath) == Flatten(RuleResults(v, content, filePath), "issues")
FileRecommendations(v, content, filePath) == Flatten(RuleResults(v, content, filePath), "recs")

extractRouteConfig(content, filePath) ==
    [file |-> filePath,
     hasActivityContext |-> Has(content, {"ActivityContext"}),
     hasBlockedNavigation |-> Has(content, {"BlockedNavigation"}),
     hasMultipleQueryClients |-> Count(content, queryClientPattern) > 1,
     hasUnmemoizedRoutes |-> Has(content, {RoutesMapCall}) /\ ~Has(content, {"useMemo"}),
     hasReactRouter |-> Has(content, {"react-router", "useNavigate", "useLocation"}),
     hasShellComponents |-> Has(content, {"Shell", "AsyncWrapper", "useModulePathResolver"})]

(***************************************************************************)
(* The file system.  An entry of a listing is a Dirent with what reading   *)
(* it gives: a file's text, a directory's listing, or a failure.           *)
(***************************************************************************)
FileEntry(name, content, readable) ==
    [name |-> name, isDir |-> FALSE, readable |-> readable, content |-> content,
     entries |-> <<>>]

DirEntry(name, readable, entries) ==
    [name |-> name, isDir |-> TRUE, readable |-> readable, content |-> <<>>,
     entries |-> entries]

Clean == <<>>
Flagged == <<RoutesMapCall>>
\* A text every rule finds something in, its fragments in the reverse of the rules' order.
Rich == <<"debugger", "console.log", "useModulePathResolver", "AsyncWrapper", "AsyncWrapper",
          "ActivityContext", "BlockedNavigation", "createContext", "<Routes>",
          "new QueryClient(", RoutesMapCall>>

Files ==
    { FileEntry("routes.tsx", Flagged, TRUE),
      FileEntry("routes.tsx", Clean, TRUE),
      FileEntry("routes.tsx", Clean, FALSE),
      FileEntry("AppRoutes.ts", Rich, TRUE),
      FileEntry("index.tsx", Flagged, TRUE),
      FileEntry("routes.json", Flagged, TRUE),
      FileEntry("ROUTER.JS", Flagged, TRUE) }

InnerDirs ==
    { DirEntry("node_modules", TRUE, <<FileEntry("routes.tsx", Flagged, TRUE)>>),
      DirEntry("lib", TRUE, <<FileEntry("AppRoutes.ts", Flagged, TRUE)>>),
      DirEntry("lib", FALSE, <<>>) }

SubListings == {<<>>} \cup {<<e>> : e \in Files \cup InnerDirs}

SubDirs ==
    { DirEntry(n, TRUE, l) : n \in {"src", "build"}, l \in SubListings }
    \cup { DirEntry(n, FALSE, <<>>) : n \in {"src", "build"} }

\* The listings of at most n entries of S; a directory holds a name once.
Listings(S, n) ==
    { l \in UNION { [1..k -> S] : k \in 0..n } :
        \A i, j \in DOMAIN l : i # j => l[i].name # l[j].name }

\* The directory at the target path: readable with a listing, or not readable.
Trees(n) ==
    { [readable |-> TRUE, entries |-> l] : l \in Listings(Files \cup SubDirs, n) }
    \cup { [readable |-> FALSE, entries |-> <<>>] }

\* A text with a medium issue only, and one with a memoized routes.map.
Blocked == <<"BlockedNavigation">>
Memoized == <<RoutesMapCall, "useMemo">>

Repeat(text, n) == [k \in 1..n |-> text]

\* A project of one route file per directory, each directory holding the next.
RECURSIVE Chain(_)
Chain(texts) ==
    IF texts = <<>> THEN <<>>
    ELSE <<FileEntry("routes.tsx", Head(texts), TRUE)>>
         \o (IF Tail(texts) = <<>> THEN <<>> ELSE <<DirEntry("src", TRUE, Chain(Tail(texts)))>>)

\* The projects of at most n route files of the four kinds.
Projects(n) ==
    { [readable |-> TRUE,
       entries |-> Chain(Repeat(Flagged, q[1]) \o Repeat(Blocked, q[2])
                         \o Repeat(Memoized, q[3]) \o Repeat(Clean, q[4]))] :
        q \in { k \in (0..n) \X (0..n) \X (0..1) \X (0..n) : k[1] + k[2] + k[3] + k[4] <= n } }

\* The fragments a route file's text is made of, and the texts of at most n of them.
FragmentTokens ==
    {RoutesMapCall, "useMemo", "useCallback", "new QueryClient(", "createContext",
     "useContext", "<Routes>", "BlockedNavigation", "ActivityContext", ".filter(",
     "AsyncWrapper", "useModulePathResolver", "console.log", "useNavigate"}

Texts(n) == UNION { [1..k -> FragmentTokens] : k \in 0..n }

\* fs.existsSync
Exists(p) == p \in {".", "proj", "build"}

\* path.basename of the resolved path
Basename(p) == IF p = "." THEN "app" ELSE p

(***************************************************************************)
(* The CLI main block.                                                     *)
(***************************************************************************)
ArgTokens == {"-h", "-v", "-j", "--html", "--output", "--output=out.html",
              "proj", "build", "nodir"}

ArgLists(n) == UNION { [1..k -> ArgTokens] : k \in 0..n }

\* The number of "-" an argument starts with (at most two are looked at).
Dashes(arg) ==
    CASE arg \in {"-h", "-v", "-j"} -> 1
      [] arg \in {"--help", "--verbose", "--json", "--html", "--output",
                  "--output=out.html"} -> 2
      [] OTHER -> 0

defaultOptions ==
    [verbose |-> FALSE, json |-> FALSE, html |-> FALSE, output |-> "null", help |-> FALSE]

\* The argument loop of route-analyzer.js, from argument i on.
RECURSIVE ParseSimple(_, _, _)
ParseSimple(a, i, acc) ==
    IF i > Len(a) THEN acc
    ELSE LET arg == a[i]
             next ==
                IF arg \in {"--help", "-h"}
                THEN [acc EXCEPT !.options.help = TRUE]
                ELSE IF arg \in {"--verbose", "-v"}
                THEN [acc EXCEPT !.options.verbose = TRUE]
                ELSE IF arg \in {"--json", "-j"}
                THEN [acc EXCEPT !.options.json = TRUE]
                ELSE IF Dashes(arg) = 0
                THEN [acc EXCEPT !.targetPath = arg]
                ELSE acc
         IN  ParseSimple(a, i + 1, next)

\* The argument loop of routeDebugger.js, from argument i on.
RECURSIVE ParseExtended(_, _, _)
ParseExtended(a, i, acc) ==
    IF i > Len(a) THEN acc
    ELSE LET arg == a[i]
         IN  IF arg \in {"--help", "-h"}
             THEN ParseExtended(a, i + 1, [acc EXCEPT !.options.help = TRUE])
             ELSE IF arg \in {"--verbose", "-v"}
             THEN ParseExtended(a, i + 1, [acc EXCEPT !.options.verbose = TRUE])
             ELSE IF arg \in {"--json", "-j"}
             THEN ParseExtended(a, i + 1, [acc EXCEPT !.options.json = TRUE])
             ELSE IF arg = "--html"
             THEN ParseExtended(a, i + 1, [acc EXCEPT !.options.html = TRUE])
             ELSE IF arg = "--output=out.html"
             THEN ParseExtended(a, i + 1, [acc EXCEPT !.options.output = "out.html"])
             ELSE IF arg = "--output"
             THEN ParseExtended(a, i + 2,
                     [acc EXCEPT !.options.output =
                         IF i + 1 <= Len(a) THEN a[i + 1] ELSE "undefined"])
             ELSE IF Dashes(arg) < 2 /\ Exists(arg)
             THEN ParseExtended(a, i + 1, [acc EXCEPT !.targetPath = arg])
             ELSE ParseExtended(a, i + 1, acc)

\* "Default to HTML output if no format specified"
DefaultFormat(opts) ==
    IF ~opts.json /\ ~opts.html THEN [opts EXCEPT !.html = TRUE] ELSE opts

ParseArguments(v, a) ==
    LET start == [options |-> defaultOptions, targetPath |-> "."]
    IN  IF v = "simple"
        THEN ParseSimple(a, 1, start)
        ELSE LET r == ParseExtended(a, 1, start)
             IN  [r EXCEPT !.options = DefaultFormat(r.options)]

\* A slip: the path is checked before the help flag.
MainBranchPathFirst(opts, target) ==
    IF ~Exists(target) THEN "nopath"
    ELSE IF opts.help THEN "help"
    ELSE "run"

\* What the main block does after the loop: print help, reject the path, or run.
MainBranch(opts, target) ==
    IF opts.help THEN "help"
    ELSE IF ~Exists(target) THEN "nopath"
    ELSE "run"

\* A slip: verbose output wins over the JSON document.
OutputModeVerboseFirst(v, opts) ==
    IF opts.verbose THEN "console"
    ELSE IF v = "extended" /\ opts.html THEN "html"
    ELSE IF opts.json THEN "json"
    ELSE "console"

\* The reporter run() ends with.
OutputMode(v, opts) ==
    IF v = "extended" /\ opts.html THEN "html"
    ELSE IF opts.json THEN "json"
    ELSE "console"

\* A slip: the header is printed in every mode.
ConsoleModeAlways(v, opts) == TRUE

\* The guard of the header and of the per-file lines: !json (&& !html).
ConsoleMode(v, opts) ==
    IF v = "extended" THEN ~opts.json /\ ~opts.html ELSE ~opts.json

\* The status the main block exits with after run() returned `result`.
ExitAfterRun(v, opts, result) ==
    IF ConsoleMode(v, opts) /\ Len(result.issues) > 0 THEN 1 ELSE 0

(***************************************************************************)
(* The aggregator.                                                         *)
(***************************************************************************)
SeverityCount(iss, sev) == Cardinality({i \in 1..Len(iss) : iss[i].severity = sev})

\* A slip: the counter of a severity is set where it is meant to be incremented.
RECURSIVE getIssuesBySeveritySet(_)
getIssuesBySeveritySet(iss) ==
    IF iss = <<>> THEN [high |-> 0, medium |-> 0, low |-> 0]
    ELSE LET bySeverity == getIssuesBySeveritySet(SubSeq(iss, 1, Len(iss) - 1))
             severity == iss[Len(iss)].severity
         IN  IF severity \in DOMAIN bySeverity
             THEN [bySeverity EXCEPT ![severity] = 1]
             ELSE bySeverity @@ (severity :> 1)

\* bySeverity[issue.severity] = (bySeverity[issue.severity] || 0) + 1, issue by issue.
RECURSIVE getIssuesBySeverity(_)
getIssuesBySeverity(iss) ==
    IF iss = <<>> THEN [high |-> 0, medium |-> 0, low |-> 0]
    ELSE LET bySeverity == getIssuesBySeverity(SubSeq(iss, 1, Len(iss) - 1))
             severity == iss[Len(iss)].severity
         IN  IF severity \in DOMAIN bySeverity
             THEN [bySeverity EXCEPT ![severity] = @ + 1]
             ELSE bySeverity @@ (severity :> 1)

getIssuesByType(iss) ==
    [t \in {iss[i].type : i \in 1..Len(iss)} |->
        Cardinality({i \in 1..Len(iss) : iss[i].type = t})]

\* A slip: every() where some() is meant.
mapDependenciesEvery(configs) ==
    LET some(flag) == \A i \in 1..Len(configs) : configs[i][flag]
    IN  [d \in {"react-router", "react-router-dom", "@tanstack/react-query", "capitalrx-shell"} |->
            CASE d = "react-router" -> some("hasReactRouter")
              [] d = "react-router-dom" -> some("hasReactRouter")
              [] d = "@tanstack/react-query" -> some("hasMultipleQueryClients")
              [] d = "capitalrx-shell" -> some("hasShellComponents")]

mapDependencies(configs) ==
    LET some(flag) == \E i \in 1..Len(configs) : configs[i][flag]
    IN  [d \in {"react-router", "react-router-dom", "@tanstack/react-query", "capitalrx-shell"} |->
            CASE d = "react-router" -> some("hasReactRouter")
              [] d = "react-router-dom" -> some("hasReactRouter")
              [] d = "@tanstack/react-query" -> some("hasMultipleQueryClients")
              [] d = "capitalrx-shell" -> some("hasShellComponents")]

\* A slip: the thresholds are reached at 3, 10 and 5, not above them.
generateRecommendationsAtLeast(iss, configs) ==
    (IF SeverityCount(iss, "high") > 0
     THEN <<[priority |-> "high",
             message |-> "Address high-severity issues immediately to prevent route unmounting",
             action |-> "Review dynamic route generation and context placement patterns"]>>
     ELSE <<>>)
    \o (IF SeverityCount(iss, "medium") >= 3
        THEN <<[priority |-> "medium",
                message |-> "Multiple medium-severity issues detected",
                action |-> "Consider refactoring route structure for better stability"]>>
        ELSE <<>>)
    \o (IF /\ Len(configs) >= 10
           /\ Cardinality({i \in 1..Len(configs) : configs[i].hasUnmemoizedRoutes}) >= 5
        THEN <<[priority |-> "medium",
                message |-> "Large number of unmemoized routes detected",
                action |-> "Implement useMemo wrapping for route arrays across the application"]>>
        ELSE <<>>)

generateRecommendations(iss, configs) ==
    (IF SeverityCount(iss, "high") > 0
     THEN <<[priority |-> "high",
             message |-> "Address high-severity issues immediately to prevent route unmounting",
             action |-> "Review dynamic route generation and context placement patterns"]>>
     ELSE <<>>)
    \o (IF SeverityCount(iss, "medium") > 3
        THEN <<[priority |-> "medium",
                message |-> "Multiple medium-severity issues detected",
                action |-> "Consider refactoring route structure for better stability"]>>
        ELSE <<>>)
    \o (IF /\ Len(configs) > 10
           /\ Cardinality({i \in 1..Len(configs) : configs[i].hasUnmemoizedRoutes}) > 5
        THEN <<[priority |-> "medium",
                message |-> "Large number of unmemoized routes detected",
                action |-> "Implement useMemo wrapping for route arrays across the application"]>>
        ELSE <<>>)

(***************************************************************************)
(* The counters of fileStats.                                              *)
(***************************************************************************)
\* findRouteFiles counts a candidate before analyzing it: only route-analyzer.js does.
CountCandidate(v, stats) ==
    IF v = "simple" THEN [stats EXCEPT !.total = @ + 1] ELSE stats

CountAnalyzed(stats) == [stats EXCEPT !.analyzed = @ + 1]

\* A slip: issues are counted where files are meant.
CountWithIssuesPerIssue(stats, fileIssues) ==
    [stats EXCEPT !.withIssues = @ + Len(fileIssues)]

\* A slip: the file's issues are looked at in the global list, not in fileIssues.
CountWithIssuesGlobal(stats, fileIssues) ==
    IF Len(fileIssues) > 0 \/ stats.withIssues > 0
    THEN [stats EXCEPT !.withIssues = @ + 1]
    ELSE stats

CountWithIssues(stats, fileIssues) ==
    IF Len(fileIssues) > 0 THEN [stats EXCEPT !.withIssues = @ + 1] ELSE stats

(***************************************************************************)
(* The reporters.  The JSON text is given by the value it parses to:       *)
(* everything in the result is a string, a number, a boolean, an array or  *)
(* a plain object, which JSON.stringify and JSON.parse carry unchanged.    *)
(***************************************************************************)
JsonDocument(v, base, stats, iss, recs, deps, configs) ==
    LET common ==
            [summary |-> [filesAnalyzed |-> stats.analyzed,
                          filesWithIssues |-> stats.withIssues,
                          totalIssues |-> Len(iss),
                          issuesByType |-> getIssuesByType(iss),
                          issuesBySeverity |-> getIssuesBySeverity(iss)],
             issues |-> iss,
             recommendations |-> recs,
             timestamp |-> "ISO-8601",
             basePath |-> base]
    IN  IF v = "extended"
        THEN common @@ [dependencies |-> deps, routeConfigs |-> configs]
        ELSE common

\* printResults / printConsoleResults: the counts the summary prints.
ConsoleSummary(stats, iss, recs) ==
    [kind |-> "summary",
     filesAnalyzed |-> stats.analyzed,
     filesWithIssues |-> stats.withIssues,
     totalIssues |-> Len(iss),
     recommendations |-> Len(recs),
     acrossFiles |-> Cardinality({iss[i].file : i \in 1..Len(iss)})]

\* The "Issues: h m l" line of the simple variant's verbose mode.
IssuesLine(v, opts, fileIssues) ==
    IF v = "simple" /\ Len(fileIssues) > 0 /\ opts.verbose /\ ~opts.json
    THEN <<[kind |-> "fileIssues",
            counts |-> [high |-> SeverityCount(fileIssues, "high"),
                        medium |-> SeverityCount(fileIssues, "medium"),
                        low |-> SeverityCount(fileIssues, "low")]]>>
    ELSE <<>>

\* The per-file progress line.
ProgressLine(v, opts, filePath) ==
    IF opts.verbose /\ ConsoleMode(v, opts)
    THEN <<[kind |-> "file", path |-> filePath]>>
    ELSE <<>>

Header(v, opts) == IF ConsoleMode(v, opts) THEN <<[kind |-> "header"]>> ELSE <<>>

outputPath(opts) == IF opts.output \in {"null", "undefined"} THEN "docs/index.html" ELSE opts.output

(***************************************************************************)
(* Initial states: a command line with a small directory, or the exported  *)
(* class used directly on a larger one.                                    *)
(***************************************************************************)
Variants == {"simple", "extended"}

ApiOptions(v) ==
    { [defaultOptions EXCEPT !.verbose = b, !.json = j, !.html = h] :
        b \in BOOLEAN, j \in BOOLEAN, h \in IF v = "extended" THEN BOOLEAN ELSE {FALSE} }

newFileStats == [total |-> 0, analyzed |-> 0, withIssues |-> 0]

\* Everything but the inputs, before the program has run.
\* debugUtilities as the report's script creates it; installed counts the
\* startMonitoring calls that replaced history.pushState and history.replaceState
\* and added a popstate listener; navigations is the history of the navigations
\* made, each with the value monitoring had.
debugUtilities ==
    [routeChanges |-> <<>>, monitoring |-> FALSE, installed |-> 0, navigations |-> <<>>]

Blank ==
    /\ constructed = FALSE
    /\ issues = <<>>
    /\ recommendations = <<>>
    /\ fileStats = newFileStats
    /\ routeConfigs = <<>>
    /\ dependencies = <<>>
    /\ stack = <<>>
    /\ visited = <<>>
    /\ analyzedLog = <<>>
    /\ fileIssuesLog = <<>>
    /\ runs = 0
    /\ stdout = <<>>
    /\ stderr = <<>>
    /\ reportFile = ""
    /\ exitCode = -1
    /\ monitor = debugUtilities
    /\ diagnoses = <<>>

InitCli ==
    /\ entry = "cli"
    /\ variant \in Variants
    /\ args \in ArgLists(MaxArgs)
    /\ tree \in Trees(1)
    /\ pc = "main"
    /\ options = defaultOptions
    /\ targetPath = "."
    /\ Blank

InitApi ==
    /\ entry = "api"
    /\ variant \in Variants
    /\ args = <<>>
    /\ tree \in Trees(MaxEntries)
    /\ pc = "api"
    /\ options \in ApiOptions(variant)
    /\ targetPath = "proj"
    /\ Blank

Init == InitCli \/ InitApi

\* The exported class on a directory holding one route file, of any text.
InitRules ==
    /\ entry = "api"
    /\ variant \in Variants
    /\ args = <<>>
    /\ tree \in { [readable |-> TRUE, entries |-> <<FileEntry("routes.tsx", t, TRUE)>>] :
                    t \in Texts(MaxFragments) }
                \cup { [readable |-> TRUE, entries |-> <<FileEntry("routes.tsx", Clean, FALSE)>>] }
    /\ pc = "api"
    /\ options = [defaultOptions EXCEPT !.json = TRUE]
    /\ targetPath = "proj"
    /\ Blank

\* The extended variant asked for the HTML report of a directory with one route file.
InitMonitor ==
    /\ entry = "api"
    /\ variant = "extended"
    /\ args = <<>>
    /\ tree = [readable |-> TRUE, entries |-> <<FileEntry("routes.tsx", Flagged, TRUE)>>]
    /\ pc = "api"
    /\ options = [defaultOptions EXCEPT !.html = TRUE]
    /\ targetPath = "proj"
    /\ Blank

\* The helper module loaded, nothing analyzed.
InitHelper ==
    /\ entry = "helper"
    /\ variant = "extended"
    /\ args = <<>>
    /\ tree = [readable |-> FALSE, entries |-> <<>>]
    /\ pc = "helper"
    /\ options = defaultOptions
    /\ targetPath = "."
    /\ Blank

\* The exported class of the extended variant used on a project of many route files.
InitProject ==
    /\ entry = "api"
    /\ variant = "extended"
    /\ args = <<>>
    /\ tree \in Projects(MaxFiles)
    /\ pc = "api"
    /\ options = [defaultOptions EXCEPT !.json = TRUE]
    /\ targetPath = "proj"
    /\ Blank

(***************************************************************************)
(* The main block.                                                         *)
(***************************************************************************)
walkVars == <<issues, recommendations, fileStats, routeConfigs, dependencies, stack,
              visited, analyzedLog, fileIssuesLog>>
inputs == <<variant, entry, args, tree>>
browser == <<monitor, diagnoses>>

ParseArgs ==
    /\ pc = "main"
    /\ LET r == ParseArguments(variant, args)
       IN  /\ options' = r.options
           /\ targetPath' = r.targetPath
    /\ pc' = "parsed"
    /\ UNCHANGED <<inputs, browser, runs, walkVars, constructed, stdout, stderr, reportFile, exitCode>>

ShowHelp ==
    /\ pc = "parsed"
    /\ MainBranch(options, targetPath) = "help"
    /\ stdout' = Append(stdout, [kind |-> "usage"])
    /\ exitCode' = 0
    /\ pc' = "done"
    /\ UNCHANGED <<inputs, browser, runs, walkVars, options, targetPath, constructed, stderr, reportFile>>

PathMissing ==
    /\ pc = "parsed"
    /\ MainBranch(options, targetPath) = "nopath"
    /\ stderr' = Append(stderr, [kind |-> "pathError", path |-> targetPath])
    /\ exitCode' = 1
    /\ pc' = "done"
    /\ UNCHANGED <<inputs, browser, runs, walkVars, options, targetPath, constructed, stdout, reportFile>>

\* run() up to the root readdirSync: the header, then findRouteFiles(this.basePath).
BeginRun ==
    /\ runs' = runs + 1
    /\ stdout' = stdout \o Header(variant, options)
    /\ IF tree.readable
       THEN /\ stack' = <<[dir |-> <<>>, files |-> tree.entries, i |-> 1]>>
            /\ stderr' = stderr
       ELSE /\ stack' = <<>>
            /\ stderr' = Append(stderr, [kind |-> "dirError", dir |-> <<>>])
    /\ pc' = "walk"

\* new X(targetPath, options), then run().
StartRun ==
    /\ \/ pc = "parsed" /\ MainBranch(options, targetPath) = "run"
       \/ pc = "api"
    /\ constructed' = TRUE
    /\ issues' = <<>>
    /\ recommendations' = <<>>
    /\ routeConfigs' = <<>>
    /\ dependencies' = <<>>
    /\ fileStats' = newFileStats
    /\ BeginRun
    /\ UNCHANGED <<inputs, browser, options, targetPath, visited, analyzedLog, fileIssuesLog,
                   reportFile, exitCode>>

\* run() called once more on the analyzer a caller of the exported class holds.
RunAgain ==
    /\ entry = "api"
    /\ pc = "done"
    /\ runs < MaxRuns
    /\ BeginRun
    /\ UNCHANGED <<inputs, browser, options, targetPath, constructed, issues, recommendations,
                   fileStats, routeConfigs, dependencies, visited, analyzedLog,
                   fileIssuesLog, reportFile, exitCode>>

(***************************************************************************)
(* findRouteFiles: one step per directory entry.                           *)
(***************************************************************************)
Top == stack[Len(stack)]
Current == Top.files[Top.i]
Walking == pc = "walk" /\ stack # <<>>
AtEntry == Walking /\ Top.i <= Len(Top.files)
Advance(st) == [st EXCEPT ![Len(st)].i = @ + 1]

\* if (file.isDirectory() && !this.shouldSkipDirectory(file.name))
Recursed(e) == e.isDir /\ ~shouldSkipDirectory(e.name)

\* fs.readFileSync succeeds
CanRead(e) == ~e.isDir /\ e.readable

EnterDirectory ==
    /\ AtEntry
    /\ Recursed(Current)
    /\ Current.readable
    /\ stack' = Append(Advance(stack),
                       [dir |-> Append(Top.dir, Current.name),
                        files |-> Current.entries, i |-> 1])
    /\ UNCHANGED <<inputs, browser, runs, pc, options, targetPath, constructed, issues, recommendations,
                   fileStats, routeConfigs, dependencies, visited, analyzedLog, fileIssuesLog, stdout,
                   stderr, reportFile, exitCode>>

\* A slip: the failure is not caught where the directory is read, and ends the walk.
DirectoryReadErrorAborts ==
    /\ AtEntry
    /\ Recursed(Current)
    /\ ~Current.readable
    /\ stderr' = Append(stderr, [kind |-> "dirError", dir |-> Append(Top.dir, Current.name)])
    /\ stack' = <<>>
    /\ UNCHANGED <<inputs, browser, runs, pc, options, targetPath, constructed, issues, recommendations,
                   fileStats, routeConfigs, dependencies, visited, analyzedLog, fileIssuesLog,
                   stdout, reportFile, exitCode>>

DirectoryReadError ==
    /\ AtEntry
    /\ Recursed(Current)
    /\ ~Current.readable
    /\ stderr' = Append(stderr, [kind |-> "dirError", dir |-> Append(Top.dir, Current.name)])
    /\ stack' = Advance(stack)
    /\ UNCHANGED <<inputs, browser, runs, pc, options, targetPath, constructed, issues, recommendations,
                   fileStats, routeConfigs, dependencies, visited, analyzedLog, fileIssuesLog, stdout,
                   reportFile, exitCode>>

SkipEntry ==
    /\ AtEntry
    /\ ~Recursed(Current)
    /\ ~isRelevantFile(Current.name)
    /\ stack' = Advance(stack)
    /\ UNCHANGED <<inputs, browser, runs, pc, options, targetPath, constructed, issues, recommendations,
                   fileStats, routeConfigs, dependencies, visited, analyzedLog, fileIssuesLog, stdout,
                   stderr, reportFile, exitCode>>

\* analyzeRouteFile(fullPath), the read succeeding.
AnalyzeFile ==
    /\ AtEntry
    /\ ~Recursed(Current)
    /\ isRelevantFile(Current.name)
    /\ CanRead(Current)
    /\ LET relativePath == Append(Top.dir, Current.name)
           content == Current.content
           fileIssues == FileIssues(variant, content, relativePath)
           counted == CountAnalyzed(CountCandidate(variant, fileStats))
       IN  /\ visited' = Append(visited, relativePath)
           /\ fileStats' = CountWithIssues(counted, fileIssues)
           /\ analyzedLog' = IF counted.analyzed > fileStats.analyzed
                             THEN Append(analyzedLog, relativePath)
                             ELSE analyzedLog
           /\ stdout' = stdout \o ProgressLine(variant, options, relativePath)
                               \o IssuesLine(variant, options, fileIssues)
           /\ fileIssuesLog' = Append(fileIssuesLog, fileIssues)
           /\ issues' = issues \o fileIssues
           /\ recommendations' =
                 recommendations \o FileRecommendations(variant, content, relativePath)
           /\ routeConfigs' = IF variant = "extended"
                              THEN Append(routeConfigs, extractRouteConfig(content, relativePath))
                              ELSE routeConfigs
    /\ stack' = Advance(stack)
    /\ UNCHANGED <<inputs, browser, runs, pc, options, targetPath, constructed, dependencies, stderr,
                   reportFile, exitCode>>

\* analyzeRouteFile(fullPath), readFileSync throwing.
AnalyzeFileError ==
    /\ AtEntry
    /\ ~Recursed(Current)
    /\ isRelevantFile(Current.name)
    /\ ~CanRead(Current)
    /\ visited' = Append(visited, Append(Top.dir, Current.name))
    /\ fileStats' = CountCandidate(variant, fileStats)
    /\ stderr' = Append(stderr, [kind |-> "fileError", path |-> Append(Top.dir, Current.name)])
    /\ stack' = Advance(stack)
    /\ UNCHANGED <<inputs, browser, runs, pc, options, targetPath, constructed, issues, recommendations,
                   routeConfigs, dependencies, analyzedLog, fileIssuesLog, stdout, reportFile, exitCode>>

\* The for loop of a findRouteFiles call ends.
ReturnFromDirectory ==
    /\ Walking
    /\ Top.i > Len(Top.files)
    /\ stack' = SubSeq(stack, 1, Len(stack) - 1)
    /\ UNCHANGED <<inputs, browser, runs, pc, options, targetPath, constructed, issues, recommendations,
                   fileStats, routeConfigs, dependencies, visited, analyzedLog, fileIssuesLog, stdout,
                   stderr, reportFile, exitCode>>

\* run() after findRouteFiles returned: mapDependencies, generateRecommendations (extended).
Aggregate ==
    /\ pc = "walk"
    /\ stack = <<>>
    /\ IF variant = "extended"
       THEN /\ dependencies' = mapDependencies(routeConfigs)
            /\ recommendations' =
                  recommendations \o generateRecommendations(issues, routeConfigs)
       ELSE UNCHANGED <<dependencies, recommendations>>
    /\ pc' = "report"
    /\ UNCHANGED <<inputs, browser, runs, options, targetPath, constructed, issues, fileStats, routeConfigs,
                   stack, visited, analyzedLog, fileIssuesLog, stdout, stderr, reportFile, exitCode>>

(***************************************************************************)
(* The reporters, and the main block's exit after run() returned.          *)
(***************************************************************************)
Result == [issues |-> issues, recommendations |-> recommendations]

Returned ==
    /\ pc' = "done"
    /\ exitCode' = IF entry = "cli" THEN ExitAfterRun(variant, options, Result) ELSE exitCode

JsonReport ==
    /\ pc = "report"
    /\ OutputMode(variant, options) = "json"
    /\ stdout' = Append(stdout,
                        [kind |-> "json",
                         doc |-> JsonDocument(variant, targetPath, fileStats, issues,
                                              recommendations, dependencies, routeConfigs)])
    /\ Returned
    /\ UNCHANGED <<inputs, browser, runs, walkVars, options, targetPath, constructed, stderr, reportFile>>

HtmlReport ==
    /\ pc = "report"
    /\ OutputMode(variant, options) = "html"
    /\ reportFile' = outputPath(options)
    /\ stdout' = Append(stdout, [kind |-> "htmlGenerated", path |-> outputPath(options)])
    /\ Returned
    /\ UNCHANGED <<inputs, browser, runs, walkVars, options, targetPath, constructed, stderr>>

\* mkdirSync or writeFileSync throws: the main block's catch, or the caller's.
HtmlReportError ==
    /\ pc = "report"
    /\ OutputMode(variant, options) = "html"
    /\ IF entry = "cli"
       THEN /\ stderr' = Append(stderr, [kind |-> "analysisFailed"])
            /\ exitCode' = 1
            /\ pc' = "done"
       ELSE /\ UNCHANGED <<stderr, exitCode>>
            /\ pc' = "threw"
    /\ UNCHANGED <<inputs, browser, runs, walkVars, options, targetPath, constructed, stdout, reportFile>>

ConsoleReport ==
    /\ pc = "report"
    /\ OutputMode(variant, options) = "console"
    /\ stdout' = Append(stdout, ConsoleSummary(fileStats, issues, recommendations))
    /\ Returned
    /\ UNCHANGED <<inputs, browser, runs, walkVars, options, targetPath, constructed, stderr, reportFile>>

(***************************************************************************)
(* The script of the HTML report, once the report is opened in a browser.  *)
(***************************************************************************)
analyzerVars == <<pc, options, targetPath, constructed, runs, walkVars, stdout, stderr,
                  reportFile, exitCode>>

\* The written report is loaded: its script creates debugUtilities.
OpenReport ==
    /\ pc = "done"
    /\ reportFile # ""
    /\ pc' = "page"
    /\ monitor' = debugUtilities
    /\ UNCHANGED <<inputs, diagnoses, options, targetPath, constructed, runs, walkVars, stdout,
                   stderr, reportFile, exitCode>>

\* startRouteMonitor(): debugUtilities.startMonitoring().
StartMonitoring ==
    /\ pc = "page"
    /\ IF monitor.monitoring
       THEN UNCHANGED monitor
       ELSE /\ monitor.installed < MaxInstalls
            /\ monitor' = [monitor EXCEPT !.monitoring = TRUE, !.installed = @ + 1]
    /\ UNCHANGED <<inputs, diagnoses, analyzerVars>>

\* stopRouteMonitor(): debugUtilities.stopMonitoring().
StopMonitoring ==
    /\ pc = "page"
    /\ monitor' = [monitor EXCEPT !.monitoring = FALSE]
    /\ UNCHANGED <<inputs, diagnoses, analyzerVars>>

\* logRouteChange, once per call: the entry's type.
logRouteChange(routeChanges, type) == Append(routeChanges, type)

\* The calls a navigation sets off: each installed history.pushState (or
\* replaceState) logs and calls the one it replaced; each popstate listener logs.
RECURSIVE Hooks(_, _, _)
Hooks(routeChanges, type, installed) ==
    IF installed = 0 THEN routeChanges
    ELSE Hooks(logRouteChange(routeChanges, type), type, installed - 1)

\* debugUtilities after a navigation of the given type.
Navigated(type) ==
    [monitor EXCEPT !.routeChanges = Hooks(@, type, monitor.installed),
                    !.navigations = Append(@, monitor.monitoring)]

CanNavigate == pc = "page" /\ Len(monitor.navigations) < MaxNavigations

\* The application calls history.pushState.
PushState ==
    /\ CanNavigate
    /\ monitor' = Navigated("pushState")
    /\ UNCHANGED <<inputs, diagnoses, analyzerVars>>

\* The application calls history.replaceState.
ReplaceState ==
    /\ CanNavigate
    /\ monitor' = Navigated("replaceState")
    /\ UNCHANGED <<inputs, diagnoses, analyzerVars>>

\* The user goes back or forward: the window gets a popstate event.
PopState ==
    /\ CanNavigate
    /\ monitor' = Navigated("popstate")
    /\ UNCHANGED <<inputs, diagnoses, analyzerVars>>

MonitorNext ==
    \/ StartRun
    \/ AnalyzeFile
    \/ ReturnFromDirectory
    \/ Aggregate
    \/ HtmlReport
    \/ OpenReport
    \/ StartMonitoring
    \/ StopMonitoring
    \/ PushState
    \/ ReplaceState
    \/ PopState

MonitorSpec == InitMonitor /\ [][MonitorNext]_vars

(***************************************************************************)
(* The helper module: diagnoseUnmountIssues.                               *)
(***************************************************************************)
RouteConfigs ==
    [hasActivityContext : BOOLEAN, hasBlockedNavigation : BOOLEAN,
     hasMultipleQueryClients : BOOLEAN, hasUnmemoizedRoutes : BOOLEAN]

\* One if of the function: the two pushes, and the severity when the if sets it.
Found(diagnosis, flag, issue, recommendation, severity) ==
    IF flag
    THEN [issues |-> Append(diagnosis.issues, issue),
          recommendations |-> Append(diagnosis.recommendations, recommendation),
          severity |-> IF severity = "" THEN diagnosis.severity ELSE severity]
    ELSE diagnosis

diagnoseUnmountIssues(routeConfig) ==
    LET d0 == [issues |-> <<>>, recommendations |-> <<>>, severity |-> "low"]
        d1 == Found(d0, routeConfig.hasActivityContext,
                    "ActivityContext tracking navigation changes",
                    "Move ActivityContext below module routing level", "")
        d2 == Found(d1, routeConfig.hasBlockedNavigation,
                    "BlockedNavigation intercepting navigation",
                    "Check BlockedNavigation placement and when conditions", "")
        d3 == Found(d2, routeConfig.hasMultipleQueryClients,
                    "Multiple QueryClient instances detected",
                    "Share single QueryClient instance across routes", "high")
    IN  Found(d3, routeConfig.hasUnmemoizedRoutes,
              "Route array recreated on each render",
              "Wrap routes in useMemo with stable dependencies", "medium")

\* A call of the exported function (window.CapitalRxRouteDebugger.diagnoseUnmountIssues).
Diagnose ==
    /\ pc = "helper"
    /\ Len(diagnoses) < MaxCalls
    /\ \E routeConfig \in RouteConfigs :
          diagnoses' = Append(diagnoses, [routeConfig |-> routeConfig,
                                          diagnosis |-> diagnoseUnmountIssues(routeConfig)])
    /\ UNCHANGED <<inputs, monitor, analyzerVars>>

HelperNext == Diagnose

HelperSpec == InitHelper /\ [][HelperNext]_vars

Next ==
    \/ ParseArgs
    \/ ShowHelp
    \/ PathMissing
    \/ StartRun
    \/ EnterDirectory
    \/ DirectoryReadError
    \/ SkipEntry
    \/ AnalyzeFile
    \/ AnalyzeFileError
    \/ ReturnFromDirectory
    \/ Aggregate
    \/ JsonReport
    \/ HtmlReport
    \/ HtmlReportError
    \/ ConsoleReport

Spec == Init /\ [][Next]_vars

\* The rule set on one file, the analyzer possibly run more than once.
RuleNext ==
    \/ StartRun
    \/ AnalyzeFile
    \/ AnalyzeFileError
    \/ ReturnFromDirectory
    \/ Aggregate
    \/ JsonReport
    \/ RunAgain

RuleSpec == InitRules /\ [][RuleNext]_vars

\* One run over a project of many route files.
ProjectNext ==
    \/ StartRun
    \/ EnterDirectory
    \/ AnalyzeFile
    \/ ReturnFromDirectory
    \/ Aggregate
    \/ JsonReport

ProjectSpec == InitProject /\ [][ProjectNext]_vars

(***************************************************************************)
(* What a command line asks for, read off the argument list itself.        *)
(***************************************************************************)
HelpFlags == {"-h", "--help"}
JsonFlags == {"-j", "--json"}
VerboseFlags == {"-v", "--verbose"}

\* Argument i is the value of a preceding --output (routeDebugger.js only).
RECURSIVE IsOptionValue(_, _, _)
IsOptionValue(v, a, i) ==
    /\ v = "extended"
    /\ i > 1
    /\ a[i - 1] = "--output"
    /\ ~IsOptionValue(v, a, i - 1)

\* One of `flags` is passed as a flag.
Given(flags) ==
    \E i \in 1..Len(args) : args[i] \in flags /\ ~IsOptionValue(variant, args, i)

\* One of `flags` occurs anywhere in the argument list.
Occurs(flags) == \E i \in 1..Len(args) : args[i] \in flags

Positionals ==
    {i \in 1..Len(args) : Dashes(args[i]) = 0 /\ ~IsOptionValue(variant, args, i)}

\* The directory the command line names: the last positional argument, or the cwd.
RequestedPath ==
    IF Positionals = {} THEN "."
    ELSE args[CHOOSE i \in Positionals : \A j \in Positionals : j <= i]

Kinds(stream) == {stream[k].kind : k \in 1..Len(stream)}
CountKind(stream, kind) == Cardinality({k \in 1..Len(stream) : stream[k].kind = kind})
CliDone == entry = "cli" /\ pc = "done"

\* Every file of the directory, as the path from the target directory.
RECURSIVE PathsIn(_, _)
PathsIn(prefix, entries) ==
    UNION { IF entries[k].isDir
            THEN PathsIn(Append(prefix, entries[k].name), entries[k].entries)
            ELSE {Append(prefix, entries[k].name)} : k \in 1..Len(entries) }

InSkippedSubdirectory(p) == \E j \in 1..(Len(p) - 1) : p[j] \in skipDirs

(***************************************************************************)
(* C1.  As stated: no file inside a directory whose basename is on the     *)
(* skip list is ever passed to analyzeRouteFile.  The target directory is  *)
(* such a directory when it is itself named build, dist, ...               *)
(***************************************************************************)
C1_NoFileInsideSkipNamedDirectory ==
    \A k \in 1..Len(visited) :
        /\ Basename(targetPath) \notin skipDirs
        /\ ~InSkippedSubdirectory(visited[k])

\* C1, amended: no file inside a subdirectory (at any depth below the target
\* directory) whose basename is on the skip list is ever passed to analyzeRouteFile.
C1_NoFileInsideSkippedSubdirectory ==
    \A k \in 1..Len(visited) : ~InSkippedSubdirectory(visited[k])

\* A finished walk that analyzed files, of a directory holding a relevant file
\* inside a skip-listed subdirectory.
C1_Witness ==
    /\ pc = "done"
    /\ fileStats.analyzed >= 1
    /\ \E p \in PathsIn(<<>>, tree.entries) :
          InSkippedSubdirectory(p) /\ isRelevantFile(p[Len(p)])

(***************************************************************************)
(* C2.  For a command line without help: the exit status is 1 exactly when *)
(* console output found an issue, or the target path does not exist, or an *)
(* unhandled error occurred; so with JSON or HTML asked for, the path      *)
(* there and no error, it is 0 however many issues were found.             *)
(***************************************************************************)
C2_ExitStatus ==
    (CliDone /\ ~Given(HelpFlags)) =>
        /\ (exitCode = 1) <=>
              \/ "summary" \in Kinds(stdout) /\ Len(issues) > 0
              \/ ~Exists(RequestedPath)
              \/ "analysisFailed" \in Kinds(stderr)
        /\ exitCode \in {0, 1}
        /\ (/\ Given(JsonFlags) \/ (variant = "extended" /\ Given({"--html"}))
            /\ Exists(RequestedPath)
            /\ "analysisFailed" \notin Kinds(stderr)) => exitCode = 0

(***************************************************************************)
(* C3.  A positional argument naming a path that does not exist: an error  *)
(* on the error stream and exit status 1, nothing walked or analyzed.      *)
(***************************************************************************)
C3_MissingPathIsFatal ==
    (entry = "cli" /\ ~Given(HelpFlags) /\ ~Exists(RequestedPath)) =>
        /\ ~constructed
        /\ visited = <<>>
        /\ stack = <<>>
        /\ pc = "done" => (exitCode = 1 /\ "pathError" \in Kinds(stderr))

(***************************************************************************)
(* C4.  routeDebugger.js <dir> --json exits 1 when issues are found in     *)
(* <dir>, and 0 otherwise.                                                 *)
(***************************************************************************)
C4_JsonExitStatus ==
    (/\ CliDone
     /\ variant = "extended"
     /\ Len(args) = 2
     /\ Dashes(args[1]) = 0 /\ Exists(args[1])
     /\ args[2] \in JsonFlags) =>
        exitCode = IF Len(issues) > 0 THEN 1 ELSE 0

(***************************************************************************)
(* C5.  As stated: whenever -h or --help appears anywhere in the argument  *)
(* list, the usage text is printed and the process exits 0 without         *)
(* constructing an analyzer, walking a directory or writing a report.      *)
(***************************************************************************)
HelpOutcome ==
    /\ ~constructed
    /\ visited = <<>>
    /\ stack = <<>>
    /\ reportFile = ""
    /\ pc = "done" => (stdout = <<[kind |-> "usage"]>> /\ stderr = <<>> /\ exitCode = 0)

C5_HelpAnywhere == (entry = "cli" /\ Occurs(HelpFlags)) => HelpOutcome

\* C5, amended: whenever -h or --help is passed as an argument that is not the
\* value taken by a preceding --output, the usage text is printed and the process
\* exits 0 without constructing an analyzer, walking a directory or writing a report.
C5_HelpFlag == (entry = "cli" /\ Given(HelpFlags)) => HelpOutcome

\* Help together with a path that does not exist, the run over.
C5_Witness == CliDone /\ Given(HelpFlags) /\ Occurs({"nodir"}) /\ exitCode = 0

(***************************************************************************)
(* C6.  As stated: whenever -j or --json is passed, with any other flags,  *)
(* the run writes the JSON document to standard output instead of the      *)
(* console summary.                                                        *)
(***************************************************************************)
JsonInsteadOfConsole ==
    /\ CountKind(stdout, "json") = 1
    /\ Kinds(stdout) \cap {"header", "file", "fileIssues", "summary"} = {}

C6_JsonWithAnyFlags == (CliDone /\ Occurs(JsonFlags)) => JsonInsteadOfConsole

\* C6, amended: whenever -j or --json is passed as a flag (not as the value of
\* --output), help is not requested, the named path exists and, in the extended
\* variant, --html is not passed too, the run writes the JSON document to standard
\* output instead of the console summary.
C6_JsonFlag ==
    (/\ CliDone
     /\ Given(JsonFlags)
     /\ ~Given(HelpFlags)
     /\ Exists(RequestedPath)
     /\ ~(variant = "extended" /\ Given({"--html"}))) => JsonInsteadOfConsole

\* --json together with --verbose, issues found.
C6_Witness ==
    /\ CliDone
    /\ Given(JsonFlags) /\ Given(VerboseFlags)
    /\ Len(issues) > 0
    /\ CountKind(stdout, "json") = 1

(***************************************************************************)
(* C7.  In JSON mode, with or without verbose, standard output is exactly  *)
(* one JSON document, and its summary.totalIssues is the length of its     *)
(* issues array.                                                           *)
(***************************************************************************)
JsonMode == options.json /\ ~(variant = "extended" /\ options.html)

C7_JsonStdout ==
    (constructed /\ JsonMode) =>
        /\ pc # "done" => stdout = <<>>
        /\ pc = "done" =>
              /\ Len(stdout) = 1
              /\ stdout[1].kind = "json"
              /\ stdout[1].doc.summary.totalIssues = Len(stdout[1].doc.issues)

\* A verbose JSON run that analyzed a file with issues and logged a read failure.
C7_Witness ==
    /\ pc = "done"
    /\ constructed /\ JsonMode /\ options.verbose
    /\ Len(issues) > 0
    /\ stderr # <<>>

(***************************************************************************)
(* C8.  -v/--verbose without --json or --html runs in console mode: one    *)
(* progress line per analyzed file, and the console summary.               *)
(***************************************************************************)
C8_VerboseConsole ==
    (/\ CliDone
     /\ Given(VerboseFlags)
     /\ ~Occurs(JsonFlags \cup {"--html"})
     /\ ~Given(HelpFlags)
     /\ Exists(RequestedPath)) =>
        /\ "summary" \in Kinds(stdout)
        /\ CountKind(stdout, "file") = fileStats.analyzed
        /\ \A k \in 1..Len(analyzedLog) :
              [kind |-> "file", path |-> analyzedLog[k]] \in {stdout[n] : n \in 1..Len(stdout)}

(***************************************************************************)
(* C9.  In every state of a run, fileStats.analyzed <= fileStats.total.    *)
(***************************************************************************)
C9_AnalyzedAtMostTotal == fileStats.analyzed <= fileStats.total

(***************************************************************************)
(* C10.  In every state of a run, fileStats.withIssues <= analyzed, and    *)
(* every issue's file is a file analyzed was incremented for.              *)
(***************************************************************************)
C10_IssuesOfAnalyzedFiles ==
    /\ fileStats.withIssues <= fileStats.analyzed
    /\ \A k \in 1..Len(issues) :
          issues[k].file \in {analyzedLog[n] : n \in 1..Len(analyzedLog)}

\* A finished run with a file that has issues and an analyzed file that has none.
C10_Witness ==
    /\ pc = "done"
    /\ fileStats.withIssues >= 1
    /\ fileStats.withIssues < fileStats.analyzed
    /\ Len(issues) > fileStats.withIssues

(***************************************************************************)
(* C11.  In the result of every run, issuesBySeverity has exactly the keys *)
(* high, medium and low, and high + medium + low is issues.length.         *)
(***************************************************************************)
JsonDocuments == {stdout[k].doc : k \in {n \in 1..Len(stdout) : stdout[n].kind = "json"}}

C11_SeveritySum ==
    \A doc \in JsonDocuments :
        LET bySeverity == doc.summary.issuesBySeverity
        IN  /\ DOMAIN bySeverity = {"high", "medium", "low"}
            /\ bySeverity.high + bySeverity.medium + bySeverity.low = Len(doc.issues)
            /\ Len(doc.issues) = Len(issues)

\* A document counting two issues of one severity and issues of another.
C11_Witness ==
    \E doc \in JsonDocuments :
        /\ doc.summary.issuesBySeverity.high >= 2
        /\ doc.summary.issuesBySeverity.low >= 1
        /\ doc.summary.issuesBySeverity.medium = 0

(***************************************************************************)
(* What a walk that recovers from every read failure visits.               *)
(***************************************************************************)
IsPrefix(d, p) == Len(d) <= Len(p) /\ SubSeq(p, 1, Len(d)) = d

\* The relevant files in the order of the walk; an unreadable directory gives none.
RECURSIVE ExpectedVisits(_, _)
ExpectedVisits(prefix, entries) ==
    IF entries = <<>> THEN <<>>
    ELSE LET e == Head(entries)
             here == IF e.isDir /\ e.name \notin skipDirs
                     THEN (IF e.readable
                           THEN ExpectedVisits(Append(prefix, e.name), e.entries)
                           ELSE <<>>)
                     ELSE IF isRelevantFile(e.name) THEN <<Append(prefix, e.name)>>
                     ELSE <<>>
         IN  here \o ExpectedVisits(prefix, Tail(entries))

RECURSIVE ConcatAll(_)
ConcatAll(lists) == IF lists = <<>> THEN <<>> ELSE Head(lists) \o ConcatAll(Tail(lists))

FailedDirectories == {stderr[k].dir : k \in {n \in 1..Len(stderr) : stderr[n].kind = "dirError"}}
WalkOver == pc \in {"report", "done", "threw"}
ReportProduced ==
    \/ Kinds(stdout) \cap {"json", "summary", "htmlGenerated"} # {}
    \/ "analysisFailed" \in Kinds(stderr)

(***************************************************************************)
(* C12.  When reading a directory fails, at the root or below it: no file  *)
(* of that directory is analyzed, the entries listed after it in its       *)
(* parent are still visited, the issues collected so far are kept, and the *)
(* run goes on to its report (which only a failing write of the HTML file  *)
(* can prevent).                                                           *)
(***************************************************************************)
C12_DirectoryFailureIsLocal ==
    (FailedDirectories # {}) =>
        /\ \A d \in FailedDirectories : \A n \in 1..Len(visited) : ~IsPrefix(d, visited[n])
        /\ WalkOver =>
              visited = IF tree.readable THEN ExpectedVisits(<<>>, tree.entries) ELSE <<>>
        /\ issues = ConcatAll(fileIssuesLog)
        /\ pc \notin {"done", "threw"} => ENABLED Next
        /\ pc = "done" => ReportProduced

\* A finished run: the first entry of the target directory is a directory that could
\* not be read, and the file listed after it was analyzed and has issues.
C12_Witness ==
    /\ pc = "done"
    /\ Len(tree.entries) = 2
    /\ tree.entries[1].isDir /\ <<tree.entries[1].name>> \in FailedDirectories
    /\ visited = <<<<tree.entries[2].name>>>>
    /\ issues # <<>>
    /\ ReportProduced /\ "analysisFailed" \notin Kinds(stderr)

(***************************************************************************)
(* C13.  A relevant file that cannot be read contributes no issue and no   *)
(* recommendation, no counter of fileStats (total, analyzed, withIssues)   *)
(* is incremented for it, and the walk goes on with the next entry.        *)
(***************************************************************************)
FailedFiles == {stderr[k].path : k \in {n \in 1..Len(stderr) : stderr[n].kind = "fileError"}}
ReadFiles == Len(visited) - CountKind(stderr, "fileError")

C13_UnreadableFileCountsNothing ==
    (FailedFiles # {}) =>
        /\ \A k \in 1..Len(issues) : issues[k].file \notin FailedFiles
        /\ \A k \in 1..Len(recommendations) :
              "file" \in DOMAIN recommendations[k] => recommendations[k].file \notin FailedFiles
        /\ fileStats.total <= ReadFiles
        /\ fileStats.analyzed <= ReadFiles
        /\ fileStats.withIssues <= ReadFiles
        /\ WalkOver =>
              visited = IF tree.readable THEN ExpectedVisits(<<>>, tree.entries) ELSE <<>>
        /\ pc \notin {"done", "threw"} => ENABLED Next

(***************************************************************************)
(* The run of the exported class on a directory holding one route file.    *)
(***************************************************************************)
Text == tree.entries[1].content
Path == <<tree.entries[1].name>>
FirstRunDone == pc = "done" /\ runs = 1
IssuesOfType(type) == {k \in 1..Len(issues) : issues[k].type = type /\ issues[k].file = Path}
InText(token) == \E i \in 1..Len(Text) : Text[i] = token

\* The recommendation texts that speak of useMemo or of memoizing.
MentionsMemoization(rec) ==
    \/ rec.message \in {"Wrap routes array in useMemo to prevent recreation",
                        "Consider memoizing expensive calculations with useMemo/useCallback",
                        "Large number of unmemoized routes detected"}
    \/ /\ "action" \in DOMAIN rec
       /\ rec.action = "Implement useMemo wrapping for route arrays across the application"

(***************************************************************************)
(* C14.  For a file whose text matches routes.map(({ path, Component }):   *)
(* the result holds a dynamic-route-generation issue of severity high for  *)
(* the file; without useMemo in the text it also holds a recommendation    *)
(* mentioning memoization; with useMemo anywhere in the text it holds no   *)
(* such recommendation.                                                    *)
(***************************************************************************)
C14_DynamicRouteRecommendation ==
    (FirstRunDone /\ InText(RoutesMapCall)) =>
        /\ \E k \in IssuesOfType("dynamic-route-generation") : issues[k].severity = "high"
        /\ ~InText("useMemo") =>
              \E k \in 1..Len(recommendations) : MentionsMemoization(recommendations[k])
        /\ InText("useMemo") =>
              \A k \in 1..Len(recommendations) : ~MentionsMemoization(recommendations[k])

(***************************************************************************)
(* C15.  The context-placement rule emits its issue (one, of severity      *)
(* high) for a file if and only if the text holds a context token          *)
(* (createContext, useContext, .Provider) and a <Routes> tag and the first *)
(* context token comes before the first <Routes>; later occurrences of     *)
(* either do not matter.                                                   *)
(***************************************************************************)
ContextTokens == {"createContext", "useContext", ".Provider"}
Occurrences(tokens) == {i \in 1..Len(Text) : Text[i] \in tokens}
First(S) == CHOOSE i \in S : \A j \in S : i <= j

FirstContextBeforeFirstRoutes ==
    /\ Occurrences(ContextTokens) # {}
    /\ Occurrences({"<Routes>"}) # {}
    /\ First(Occurrences(ContextTokens)) < First(Occurrences({"<Routes>"}))

C15_ContextPlacement ==
    FirstRunDone =>
        /\ IssuesOfType("context-placement") # {} <=> FirstContextBeforeFirstRoutes
        /\ Cardinality(IssuesOfType("context-placement")) <= 1
        /\ \A k \in IssuesOfType("context-placement") : issues[k].severity = "high"

\* <Routes> first, then a context token, then <Routes> again: no issue.
C15_Witness ==
    /\ FirstRunDone
    /\ Len(Text) = 3
    /\ Text[1] = "<Routes>" /\ Text[2] \in ContextTokens /\ Text[3] = "<Routes>"
    /\ IssuesOfType("context-placement") = {}

(***************************************************************************)
(* C16.  Two runs of the rule sequence by one analyzer on the same file    *)
(* with the same text give the same ordered per-file issue list: the same  *)
(* length, and the same type, severity, message, pattern and count at      *)
(* every position.                                                         *)
(***************************************************************************)
Compared(issue) ==
    [f \in DOMAIN issue \cap {"type", "severity", "message", "pattern", "count"} |-> issue[f]]

ComparedList(fileIssues) == [k \in 1..Len(fileIssues) |-> Compared(fileIssues[k])]

C17_HighSeverityCategories ==
    \A k \in 1..Len(issues) :
        issues[k].type \in {"dynamic-route-generation", "context-placement",
                            "query-client-creation"} => issues[k].severity = "high"

(***************************************************************************)
(* C18.  Every issue's severity is high, medium or low, and is fixed by    *)
(* its type: dynamic-route-generation and context-placement are high;      *)
(* query-client-creation, blocked-navigation, activity-context,            *)
(* multiple-async-wrappers and unmemoized-shell-hooks are medium;          *)
(* missing-memoization and performance-issue are low.                      *)
(***************************************************************************)
SeverityOfType ==
    [t \in {"dynamic-route-generation", "context-placement", "query-client-creation",
            "blocked-navigation", "activity-context", "multiple-async-wrappers",
            "unmemoized-shell-hooks", "missing-memoization", "performance-issue"} |->
        CASE t \in {"dynamic-route-generation", "context-placement"} -> "high"
          [] t \in {"missing-memoization", "performance-issue"} -> "low"
          [] OTHER -> "medium"]

RECURSIVE ListedEntries(_, _)
ListedEntries(prefix, entries) ==
    UNION { {[path |-> Append(prefix, entries[k].name), entry |-> entries[k]]}
            \cup (IF entries[k].isDir /\ entries[k].name \notin skipDirs /\ entries[k].readable
                  THEN ListedEntries(Append(prefix, entries[k].name), entries[k].entries)
                  ELSE {}) : k \in 1..Len(entries) }

Suffix(s, n) == IF n <= Len(s) THEN SubSeq(s, Len(s) - n + 1, Len(s)) ELSE <<>>

NameContainsRoute(name) ==
    \E i \in 1..Len(Spell[name]) :
        /\ i + 4 <= Len(Spell[name])
        /\ ToLower(SubSeq(Spell[name], i, i + 4)) = <<"r","o","u","t","e">>

NameEndsInRoutesTs(name) ==
    \/ Suffix(Spell[name], 9) = <<"R","o","u","t","e","s",".","t","s">>
    \/ Suffix(Spell[name], 10) = <<"R","o","u","t","e","s",".","t","s","x">>

NameHasScriptExtension(name) ==
    \/ Suffix(Spell[name], 3) \in {<<".","j","s">>, <<".","t","s">>}
    \/ Suffix(Spell[name], 4) \in {<<".","j","s","x">>, <<".","t","s","x">>}

NameIsRelevant(name) ==
    /\ NameContainsRoute(name) \/ NameEndsInRoutesTs(name)
    /\ NameHasScriptExtension(name)

VisitedPaths == {visited[n] : n \in 1..Len(visited)}

C19_AnalyzedIffRelevantName ==
    /\ \A p \in VisitedPaths :
          NameIsRelevant(p[Len(p)]) /\ p[Len(p)] \notin {"routes.json", "index.tsx"}
    /\ (constructed /\ WalkOver /\ tree.readable) =>
          \A l \in ListedEntries(<<>>, tree.entries) :
              ~(l.entry.isDir /\ l.entry.name \notin skipDirs) =>
                  (l.path \in VisitedPaths <=> NameIsRelevant(l.entry.name))

\* A finished walk of a directory listing a name that satisfies one of the two
\* conditions, then a relevant name: only the second was analyzed.
C19_Witness ==
    /\ pc = "done"
    /\ Len(tree.entries) = 2
    /\ tree.entries[1].name \in {"routes.json", "index.tsx"}
    /\ tree.entries[2].name = "AppRoutes.ts"
    /\ visited = << <<"AppRoutes.ts">> >>

(***************************************************************************)
(* C20.  Every issue of type query-client-creation, context-placement,     *)
(* blocked-navigation, activity-context or missing-memoization in the      *)
(* result comes with a recommendation, in the result's recommendations,    *)
(* that names the same file.                                               *)
(***************************************************************************)
C20_IssueHasRecommendation ==
    pc = "done" =>
        \A k \in 1..Len(issues) :
            issues[k].type \in {"query-client-creation", "context-placement",
                                "blocked-navigation", "activity-context",
                                "missing-memoization"} =>
                \E n \in 1..Len(recommendations) :
                    /\ "file" \in DOMAIN recommendations[n]
                    /\ recommendations[n].file = issues[k].file

(***************************************************************************)
(* C21: the order of the issue list.                                       *)
(***************************************************************************)
\* The rule types in the order analyzeRouteFile calls their rules.
RuleOrder ==
    <<"dynamic-route-generation", "query-client-creation", "context-placement",
      "blocked-navigation", "activity-context", "missing-memoization",
      "multiple-async-wrappers", "unmemoized-shell-hooks", "performance-issue">>

Rank(list, x) == CHOOSE k \in 1..Len(list) : list[k] = x

PerformanceMessages == [k \in 1..Len(performancePatterns) |-> performancePatterns[k].message]

\* Where a file comes in the depth-first walk of the tree, in listing order.
Discovery == IF tree.readable THEN ExpectedVisits(<<>>, tree.entries) ELSE <<>>

RECURSIVE EntryAt(_, _)
EntryAt(entries, path) ==
    LET e == entries[CHOOSE k \in 1..Len(entries) : entries[k].name = Head(path)]
    IN  IF Len(path) = 1 THEN e ELSE EntryAt(e.entries, Tail(path))

\* Issue a of a file comes before issue b of the same file.
RuleBefore(a, b) ==
    \/ Rank(RuleOrder, a.type) < Rank(RuleOrder, b.type)
    \/ /\ a.type = "performance-issue" /\ b.type = "performance-issue"
       /\ Rank(PerformanceMessages, a.message) < Rank(PerformanceMessages, b.message)

\* What each rule finds in the file at a path, taken on its own.
FoundAlone(path) ==
    LET content == EntryAt(tree.entries, path).content
        results == RuleResults(variant, content, path)
    IN  UNION { {results[r].issues[k] : k \in 1..Len(results[r].issues)} :
                r \in 1..Len(results) }

\* C21: in a run of either variant the issue list is in insertion order: the
\* issues of a file discovered earlier in the walk all come before those of a file
\* discovered later, the issues of one file come in the order of the rules (the
\* performance patterns in theirs) -- each issue and the next one are in that
\* order, which makes any two so --, the list is the lists of the analyzed files one
\* after another, and every issue a rule finds in an analyzed file on its own is
\* in the list, whatever the other rules found.
C21_InsertionOrder ==
    constructed =>
        /\ LET discovery == Discovery
               place == [k \in 1..Len(issues) |-> Rank(discovery, issues[k].file)]
           IN  \A k \in 1..(Len(issues) - 1) :
                  \/ place[k] < place[k + 1]
                  \/ issues[k].file = issues[k + 1].file /\ RuleBefore(issues[k], issues[k + 1])
        /\ issues = ConcatAll(fileIssuesLog)
        /\ \A n \in 1..Len(analyzedLog) :
              /\ FoundAlone(analyzedLog[n]) \subseteq {issues[k] : k \in 1..Len(issues)}
              /\ Cardinality(FoundAlone(analyzedLog[n])) = Len(fileIssuesLog[n])

\* Two files with issues were analyzed, the later one with an issue of every rule
\* and of two performance patterns.
C21_Witness ==
    /\ pc = "done"
    /\ Len(issues) = 12
    /\ issues[2].file # issues[3].file
    /\ {issues[k].type : k \in 3..12} = {RuleOrder[r] : r \in 1..Len(RuleOrder)}

(***************************************************************************)
(* C22: the global recommendations of the extended variant.                *)
(***************************************************************************)
CountWhere(list, P(_)) == Cardinality({k \in 1..Len(list) : P(list[k])})

IsHigh(issue) == issue.severity = "high"
IsMedium(issue) == issue.severity = "medium"
IsUnmemoized(config) == config.hasUnmemoizedRoutes
AddressImmediately(rec) ==
    rec.message = "Address high-severity issues immediately to prevent route unmounting"
MultipleMedium(rec) == rec.message = "Multiple medium-severity issues detected"
UnmemoizedRoutes(rec) == rec.message = "Large number of unmemoized routes detected"

Once(condition) == IF condition THEN 1 ELSE 0

\* C22: after one run of the extended variant the recommendations hold the
\* "address immediately" entry once if there is a high issue and not at all
\* otherwise, the "multiple medium" entry once if there are more than 3 medium
\* issues and not at all otherwise, and the "unmemoized routes" entry once if more
\* than 10 files were analyzed and more than 5 of them have hasUnmemoizedRoutes, and
\* not at all otherwise.
C22_GlobalRecommendations ==
    (variant = "extended" /\ pc \in {"report", "done"} /\ runs = 1) =>
        /\ CountWhere(recommendations, AddressImmediately)
              = Once(CountWhere(issues, IsHigh) >= 1)
        /\ CountWhere(recommendations, MultipleMedium)
              = Once(CountWhere(issues, IsMedium) > 3)
        /\ CountWhere(recommendations, UnmemoizedRoutes)
              = Once(fileStats.analyzed > 10 /\ CountWhere(routeConfigs, IsUnmemoized) > 5)

\* A run that ended with the three entries.
C22_Witness ==
    /\ variant = "extended" /\ pc = "done" /\ runs = 1
    /\ CountWhere(recommendations, AddressImmediately) = 1
    /\ CountWhere(recommendations, MultipleMedium) = 1
    /\ CountWhere(recommendations, UnmemoizedRoutes) = 1

(***************************************************************************)
(* C23: the dependency records of the extended variant.                    *)
(***************************************************************************)
SomeConfig(flag) == \E n \in 1..Len(routeConfigs) : routeConfigs[n][flag]

\* The flag of each dependency, as the dependency table of the documentation pairs them.
DependencyFlag ==
    [d \in {"react-router", "react-router-dom", "@tanstack/react-query", "capitalrx-shell"} |->
        CASE d \in {"react-router", "react-router-dom"} -> "hasReactRouter"
          [] d = "@tanstack/react-query" -> "hasMultipleQueryClients"
          [] d = "capitalrx-shell" -> "hasShellComponents"]

\* C23: after the walk of the extended variant each of the four dependency records
\* is detected exactly when the RouteFileConfig of some analyzed file has its flag;
\* react-router and react-router-dom are detected together; and none is detected
\* when no file was analyzed.
C23_DependenciesDetected ==
    (variant = "extended" /\ pc \in {"report", "done"}) =>
        /\ DOMAIN dependencies = DOMAIN DependencyFlag
        /\ \A d \in DOMAIN DependencyFlag : dependencies[d] <=> SomeConfig(DependencyFlag[d])
        /\ dependencies["react-router"] = dependencies["react-router-dom"]
        /\ fileStats.analyzed = 0 => \A d \in DOMAIN DependencyFlag : ~dependencies[d]
        /\ Len(routeConfigs) = fileStats.analyzed

\* The router and the query library were detected, the shell was not.
C23_Witness ==
    /\ variant = "extended" /\ FirstRunDone
    /\ dependencies["react-router"] /\ dependencies["@tanstack/react-query"]
    /\ ~dependencies["capitalrx-shell"]

(***************************************************************************)
(* C24: the unmemoized-shell-hooks rule.                                   *)
(***************************************************************************)
\* C24: the result of a first run over one file has exactly one
\* unmemoized-shell-hooks issue, of medium severity, when the file contains
\* useModulePathResolver and lacks useMemo or lacks useCallback, and none otherwise.
C24_UnmemoizedShellHooks ==
    FirstRunDone =>
        LET found == IssuesOfType("unmemoized-shell-hooks")
        IN  IF /\ CanRead(tree.entries[1])
               /\ InText("useModulePathResolver")
               /\ ~(InText("useMemo") /\ InText("useCallback"))
            THEN Cardinality(found) = 1 /\ \A k \in found : issues[k].severity = "medium"
            ELSE found = {}

\* The hook with useMemo but no useCallback: the issue is there.
C24_Witness ==
    /\ FirstRunDone
    /\ InText("useModulePathResolver") /\ InText("useMemo") /\ ~InText("useCallback")
    /\ IssuesOfType("unmemoized-shell-hooks") # {}

\* The hook with both useMemo and useCallback: no issue.
C24_WitnessBoth ==
    /\ FirstRunDone
    /\ InText("useModulePathResolver") /\ InText("useMemo") /\ InText("useCallback")
    /\ IssuesOfType("unmemoized-shell-hooks") = {}

(***************************************************************************)
(* C25: files with issues, counted and listed.                             *)
(***************************************************************************)
IssueFiles == {issues[k].file : k \in 1..Len(issues)}
Summaries == {n \in 1..Len(stdout) : stdout[n].kind = "summary"}

WhileMonitoring ==
    Cardinality({n \in 1..Len(monitor.navigations) : monitor.navigations[n]})

\* C26: on the opened report, after any calls of startMonitoring and
\* stopMonitoring and any navigations (pushState, replaceState, popstate),
\* routeChanges has as many entries as navigations were made while monitoring
\* was true.
C26_LoggedWhileMonitoring ==
    pc = "page" => Len(monitor.routeChanges) = WhileMonitoring

\* The same, up to the first stopMonitoring: one set of hooks installed, monitoring on.
C26_UntilFirstStop ==
    (pc = "page" /\ monitor.installed = 1 /\ monitor.monitoring) =>
        Len(monitor.routeChanges) = WhileMonitoring

\* A navigation made after stopMonitoring is in routeChanges.
C26_LoggedAfterStop ==
    /\ pc = "page"
    /\ ~monitor.monitoring
    /\ monitor.navigations = <<FALSE>>
    /\ Len(monitor.routeChanges) = 1

\* A navigation made after monitoring was started a second time is there twice.
C26_LoggedTwice ==
    /\ pc = "page"
    /\ monitor.monitoring
    /\ monitor.navigations = <<TRUE>>
    /\ Len(monitor.routeChanges) = 2

(***************************************************************************)
(* C27: the severity diagnoseUnmountIssues returns.                        *)
(***************************************************************************)
\* The severity the claim gives a combination of flags.
HighestFired(routeConfig) ==
    IF routeConfig.hasMultipleQueryClients THEN "high"
    ELSE IF routeConfig.hasUnmemoizedRoutes THEN "medium"
    ELSE "low"

\* C27: every diagnosis returned has the highest severity among the conditions
\* that fired (high with hasMultipleQueryClients, else medium with
\* hasUnmemoizedRoutes, else low), and as many recommendations as issues.
C27_HighestSeverity ==
    \A n \in 1..Len(diagnoses) :
        /\ diagnoses[n].diagnosis.severity = HighestFired(diagnoses[n].routeConfig)
        /\ Len(diagnoses[n].diagnosis.issues) = Len(diagnoses[n].diagnosis.recommendations)

\* The same, for every combination but the one with both severity-setting flags.
C27_ExceptBoth ==
    \A n \in 1..Len(diagnoses) :
        LET c == diagnoses[n].routeConfig
        IN  /\ ~(c.hasMultipleQueryClients /\ c.hasUnmemoizedRoutes) =>
                  diagnoses[n].diagnosis.severity = HighestFired(c)
            /\ Len(diagnoses[n].diagnosis.issues) = Len(diagnoses[n].diagnosis.recommendations)

\* Several clients and unmemoized routes: the diagnosis says medium.
C27_Downgraded ==
    \E n \in 1..Len(diagnoses) :
        /\ diagnoses[n].routeConfig.hasMultipleQueryClients
        /\ diagnoses[n].routeConfig.hasUnmemoizedRoutes
        /\ diagnoses[n].diagnosis.severity = "medium"

(***************************************************************************)
(* C28: the recommendations of the simple variant.                         *)
(***************************************************************************)
\* C28: in the simple variant every recommendation names a file that has an issue
\* in the issue list, and there are at most as many recommendations as issues.
C28_RecommendationsFollowIssues ==
    variant = "simple" =>
        /\ \A n \in 1..Len(recommendations) : recommendations[n].file \in IssueFiles
        /\ Len(recommendations) <= Len(issues)

\* A run that ended with recommendations, and with more issues than recommendations.
C28_Witness ==
    /\ variant = "simple" /\ FirstRunDone
    /\ Len(recommendations) >= 1
    /\ Len(recommendations) < Len(issues)

(***************************************************************************)
(* C29: run() called again on the same analyzer.                           *)
(***************************************************************************)
\* The results the run() calls returned, in order (the JSON mode prints what it returns).
Results == SelectSeq(stdout, LAMBDA line : line.kind = "json")

SameResult(a, b) ==
    /\ a.issues = b.issues
    /\ a.recommendations = b.recommendations
    /\ a.summary.filesAnalyzed = b.summary.filesAnalyzed
    /\ a.summary.filesWithIssues = b.summary.filesWithIssues

\* C29: every run() on one analyzer over the unchanged tree returns the issues,
\* the recommendations and the file statistics the first one returned.
C29_RunIsIdempotent ==
    \A n \in 1..Len(Results) : SameResult(Results[n].doc, Results[1].doc)

\* The second result holds the first run's issues twice and counts its files twice.
C29_Accumulated ==
    /\ pc = "done" /\ runs = 2
    /\ Len(Results) = 2
    /\ Results[1].doc.issues # <<>>
    /\ Results[2].doc.issues = Results[1].doc.issues \o Results[1].doc.issues
    /\ Results[2].doc.summary.filesAnalyzed = 2 * Results[1].doc.summary.filesAnalyzed
    /\ Results[2].doc.summary.filesWithIssues = 2

====
